---- MODULE Spec2Model ----
(***************************************************************************)
(* A model of package xmpp (src/xmpp/xmpp.go): the Conn object with its    *)
(* three fields, the writer and reader methods, Dial, UseTLS,              *)
(* SetErrorChannel, and the pure helper ToMap.                             *)
(*                                                                         *)
(* The caller runs three goroutines on one connection: a writer task "W"   *)
(* (the fire-and-forget emitters and KeepAlive), a reader task "R"         *)
(* (Features, Next, Body, Query) and a lifecycle task (Dial, UseTLS,       *)
(* SetErrorChannel).  The environment is the XMPP peer (which sends        *)
(* tokens and may disconnect) and the consumer of the error channel.       *)
(* Methods are only issued on the connection of a successful Dial.         *)
(***************************************************************************)
EXTENDS Integers, Sequences, FiniteSets, TLC

\* ------------------------------------------------------------------ bounds
MaxTLS == 2
MaxStream == 2
MaxCap == 1
MaxBody == 3
MaxAttrs == 3

VARIABLES
  dialRet,      \* what Dial returned: [called, conn, err]
  tcp,          \* the TCP socket: "none", "failed", "open", "closed"
  incoming,     \* c.incoming: the decoder, [bound, src]
  outgoing,     \* c.outgoing: the transport, [base, tls]
  errchan,      \* c.errchan: "nil" or "ch"
  upgrades,     \* number of UseTLS calls made so far
  stream,       \* tokens the peer has sent that the decoder has not consumed
  chanCap,      \* capacity of the caller's channel "ch"
  chanBuf,      \* buffered errors of "ch", each tagged by the task that sent it
  sendq,        \* tasks parked in a send on "ch", in arrival order
  nilq,         \* tasks parked in a send on the nil channel
  recvWaiting,  \* the consumer is parked in a receive on "ch"
  last,         \* the step just taken: operation, transport used, bytes, results
  attr,         \* ToMap: the attribute sequence passed in
  m,            \* ToMap: the map returned
  mapped,       \* ToMap: has returned
  msgBody,      \* MUCSend round trip: the body passed to MUCSend
  stanza,       \* MUCSend round trip: the characters MUCSend wrote
  readBack,     \* MUCSend round trip: what Body returned for the stanza
  phase         \* MUCSend round trip: "new", "sent", "read"

connVars == <<dialRet, tcp, incoming, outgoing, errchan, upgrades, stream>>
chanVars == <<chanCap, chanBuf, sendq, nilq, recvWaiting>>
mapVars == <<attr, m, mapped>>
mucVars == <<msgBody, stanza, readBack, phase>>
vars == <<connVars, chanVars, last, mapVars, mucVars>>

\* ------------------------------------------------------------ the Conn type
NilTransport == [base |-> "nil", tls |-> 0]
Socket == [base |-> "sock", tls |-> 0]
NilDecoder == [bound |-> FALSE, src |-> NilTransport]
NewDecoder(r) == [bound |-> TRUE, src |-> r]
TLSClient(conn) == [base |-> conn.base, tls |-> conn.tls + 1]

Tasks == {"W", "R"}

Quiet ==
  [op |-> "none", layer |-> -1, frag |-> <<>>, ok |-> TRUE,
   val |-> "", err |-> "void", recv |-> ""]

Usable == dialRet.called /\ dialRet.err = "nil"
Idle(t) == t \notin nilq /\ \A i \in 1..Len(sendq) : sendq[i] # t

\* ------------------------------------------- strings as sequences of units
\* A unit is one punctuation character or one run of name characters.
Punct == {"<", ">", "/", "&", ";", "\"", "'", " "}
IsName(u) == u \notin Punct

\* Faulty variant of EscapeChar: "<" is passed through.
EscapeChar_keepsLt(ch) ==
  CASE ch = "&" -> <<"&", "amp", ";">>
    [] ch = "'" -> <<"&", "#39", ";">>
    [] ch = ">" -> <<"&", "gt", ";">>
    [] ch = "\"" -> <<"&", "#34", ";">>
    [] OTHER -> <<ch>>

\* html.EscapeString, character by character.
EscapeChar(ch) ==
  CASE ch = "&" -> <<"&", "amp", ";">>
    [] ch = "'" -> <<"&", "#39", ";">>
    [] ch = "<" -> <<"&", "lt", ";">>
    [] ch = ">" -> <<"&", "gt", ";">>
    [] ch = "\"" -> <<"&", "#34", ";">>
    [] OTHER -> <<ch>>

RECURSIVE EscapeString(_)
EscapeString(s) ==
  IF s = <<>> THEN <<>> ELSE EscapeChar(Head(s)) \o EscapeString(Tail(s))

\* fmt.Sprintf(xmlMUCMessage, from, id, to, mtype, b): the message start tag
\* (its four attributes are not part of the model) around the body element.
xmlMUCMessage(b) ==
  <<"<", "message", ">", "<", "body", ">">> \o b
    \o <<"<", "/", "body", ">", "<", "/", "message", ">">>

\* The fragments of the other templates, by template and namespace.
xmlStream == <<"xmlStream", "NsJabberClient", "NsStream">>
xmlStartTLS == <<"xmlStartTLS", "NsTLS">>
xmlIqSet == <<"xmlIqSet", "NsIqAuth">>
xmlIqGet(ns) == <<"xmlIqGet", ns>>
xmlPresence == <<"xmlPresence">>
xmlMUCPart == <<"xmlMUCPart">>
xmlMUCPresence == <<"xmlMUCPresence", "NsMuc">>

\* --------------------------------------------------- the channel c.errchan
\* Faulty variant of Send: a select with a default case, which gives the error up
\* when nobody can take it.
Send_nonblocking(t, r) ==
  IF errchan # "nil" /\ recvWaiting
    THEN /\ recvWaiting' = FALSE
         /\ last' = [r EXCEPT !.recv = t]
         /\ UNCHANGED <<chanCap, chanBuf, sendq, nilq>>
  ELSE IF errchan # "nil" /\ Len(chanBuf) < chanCap
    THEN /\ chanBuf' = Append(chanBuf, t)
         /\ last' = r
         /\ UNCHANGED <<chanCap, sendq, nilq, recvWaiting>>
  ELSE /\ last' = r
       /\ UNCHANGED <<chanCap, chanBuf, sendq, nilq, recvWaiting>>

\* `c.errchan <- err` by task t, whose step is otherwise described by r.
\* A send on the nil channel parks the task for good; a send on "ch" is
\* taken by a parked receiver, else buffered, else parks the task.
Send(t, r) ==
  IF errchan = "nil"
    THEN /\ nilq' = nilq \cup {t}
         /\ last' = r
         /\ UNCHANGED <<chanCap, chanBuf, sendq, recvWaiting>>
  ELSE IF recvWaiting
    THEN /\ recvWaiting' = FALSE
         /\ last' = [r EXCEPT !.recv = t]
         /\ UNCHANGED <<chanCap, chanBuf, sendq, nilq>>
  ELSE IF Len(chanBuf) < chanCap
    THEN /\ chanBuf' = Append(chanBuf, t)
         /\ last' = r
         /\ UNCHANGED <<chanCap, sendq, nilq, recvWaiting>>
  ELSE /\ sendq' = Append(sendq, t)
       /\ last' = r
       /\ UNCHANGED <<chanCap, chanBuf, nilq, recvWaiting>>

\* The consumer's `<-ch`: the oldest buffered error (a parked sender then
\* moves into the buffer), else a parked sender's error, else it parks.
Receive ==
  /\ IF chanBuf # <<>>
       THEN /\ last' = [Quiet EXCEPT !.op = "receive", !.recv = Head(chanBuf)]
            /\ IF sendq # <<>>
                 THEN /\ chanBuf' = Append(Tail(chanBuf), Head(sendq))
                      /\ sendq' = Tail(sendq)
                 ELSE /\ chanBuf' = Tail(chanBuf)
                      /\ sendq' = sendq
            /\ UNCHANGED recvWaiting
     ELSE IF sendq # <<>>
       THEN /\ last' = [Quiet EXCEPT !.op = "receive", !.recv = Head(sendq)]
            /\ sendq' = Tail(sendq)
            /\ UNCHANGED <<chanBuf, recvWaiting>>
     ELSE /\ ~recvWaiting
          /\ recvWaiting' = TRUE
          /\ last' = [Quiet EXCEPT !.op = "receive"]
          /\ UNCHANGED <<chanBuf, sendq>>
  /\ UNCHANGED <<chanCap, nilq, connVars, mapVars, mucVars>>

\* ------------------------------------------------------------- lifecycle
\* Faulty variant of Dial: `return nil, err` when net.Dial fails.
Dial_nilOnError ==
  /\ ~(dialRet.called /\ dialRet.err = "nil")
  /\ \E connected \in BOOLEAN :
       IF connected
         THEN /\ tcp' = "open"
              /\ outgoing' = Socket
              /\ incoming' = NewDecoder(Socket)
              /\ dialRet' = [called |-> TRUE, conn |-> "c", err |-> "nil"]
         ELSE /\ tcp' = "failed"
              /\ outgoing' = NilTransport
              /\ incoming' = NilDecoder
              /\ dialRet' = [called |-> TRUE, conn |-> "nil", err |-> "dial error"]
  /\ errchan' = "nil"
  /\ upgrades' = 0
  /\ stream' = <<>>
  /\ last' = [Quiet EXCEPT !.op = "Dial", !.err = dialRet'.err]
  /\ UNCHANGED <<chanVars, mapVars, mucVars>>

\* Dial: net.Dial succeeds or fails; c is always the freshly allocated Conn.
Dial ==
  /\ ~(dialRet.called /\ dialRet.err = "nil")
  /\ \E connected \in BOOLEAN :
       IF connected
         THEN /\ tcp' = "open"
              /\ outgoing' = Socket
              /\ incoming' = NewDecoder(Socket)
              /\ dialRet' = [called |-> TRUE, conn |-> "c", err |-> "nil"]
         ELSE /\ tcp' = "failed"
              /\ outgoing' = NilTransport
              /\ incoming' = NilDecoder
              /\ dialRet' = [called |-> TRUE, conn |-> "c", err |-> "dial error"]
  /\ errchan' = "nil"
  /\ upgrades' = 0
  /\ stream' = <<>>
  /\ last' = [Quiet EXCEPT !.op = "Dial", !.err = dialRet'.err]
  /\ UNCHANGED <<chanVars, mapVars, mucVars>>

\* Faulty variant of UseTLS: the decoder is left on the transport it had.
UseTLS_noRebind ==
  /\ Usable
  /\ upgrades < MaxTLS
  /\ outgoing' = TLSClient(outgoing)
  /\ upgrades' = upgrades + 1
  /\ last' = [Quiet EXCEPT !.op = "UseTLS"]
  /\ UNCHANGED <<dialRet, tcp, incoming, stream, errchan, chanVars, mapVars,
                 mucVars>>

\* UseTLS: wrap the transport, bind a new decoder to the wrapped transport.
\* The tokens the old decoder had not consumed go with it.
UseTLS ==
  /\ Usable
  /\ upgrades < MaxTLS
  /\ outgoing' = TLSClient(outgoing)
  /\ incoming' = NewDecoder(outgoing')
  /\ upgrades' = upgrades + 1
  /\ stream' = <<>>
  /\ last' = [Quiet EXCEPT !.op = "UseTLS"]
  /\ UNCHANGED <<dialRet, tcp, errchan, chanVars, mapVars, mucVars>>

SetErrorChannel(channel) ==
  /\ Usable
  /\ errchan' = channel
  /\ last' = [Quiet EXCEPT !.op = "SetErrorChannel"]
  /\ UNCHANGED <<dialRet, tcp, incoming, outgoing, upgrades, stream,
                 chanVars, mapVars, mucVars>>

\* ------------------------------------------------------ writer operations
\* fmt.Fprintf(c.outgoing, ...): the outcomes of the write.  It fails on a
\* dead transport (tcp = "closed": the peer is gone, or the TLS handshake
\* failed, and both stay that way) and succeeds on a live one.
WriteOutcomes == IF tcp = "open" THEN {TRUE} ELSE {FALSE}

\* Faulty variant of Emit: the write error is ignored.
Emit_dropsError(op, frag) ==
  /\ Usable
  /\ Idle("W")
  /\ \E ok \in WriteOutcomes :
       last' = [Quiet EXCEPT !.op = op, !.layer = outgoing.tls,
                             !.frag = IF ok THEN frag ELSE <<>>, !.ok = ok]
  /\ UNCHANGED <<connVars, chanVars, mapVars, mucVars>>

\* The body shared by the nine fire-and-forget emitters:
\*   if _, err := fmt.Fprintf(c.outgoing, ...); err != nil { c.errchan <- err }
Emit(op, frag) ==
  /\ Usable
  /\ Idle("W")
  /\ \E ok \in WriteOutcomes :
       LET r == [Quiet EXCEPT !.op = op, !.layer = outgoing.tls,
                              !.frag = IF ok THEN frag ELSE <<>>, !.ok = ok]
       IN IF ok THEN last' = r /\ UNCHANGED chanVars
                ELSE Send("W", r)
  /\ UNCHANGED <<connVars, mapVars, mucVars>>

Stream == Emit("Stream", xmlStream)
StartTLS == Emit("StartTLS", xmlStartTLS)
Auth == Emit("Auth", xmlIqSet)
Discover == Emit("Discover", xmlIqGet("NsDisco"))
Presence == Emit("Presence", xmlPresence)
MUCPart == Emit("MUCPart", xmlMUCPart)
MUCPresence == Emit("MUCPresence", xmlMUCPresence)
MUCSend(b) == Emit("MUCSend", xmlMUCMessage(EscapeString(b)))
Roster == Emit("Roster", xmlIqGet("NsIqRoster"))

\* Faulty variant of KeepAlive: the error goes to the channel, as in the emitters.
KeepAlive_viaChannel ==
  /\ Usable
  /\ Idle("W")
  /\ \E ok \in WriteOutcomes :
       LET r == [Quiet EXCEPT !.op = "KeepAlive", !.layer = outgoing.tls,
                              !.frag = IF ok THEN <<" ">> ELSE <<>>, !.ok = ok,
                              !.err = "nil"]
       IN IF ok THEN last' = r /\ UNCHANGED chanVars
                ELSE Send("W", r)
  /\ UNCHANGED <<connVars, mapVars, mucVars>>

\* KeepAlive: one space written to c.outgoing, the write's error returned.
KeepAlive ==
  /\ Usable
  /\ Idle("W")
  /\ \E ok \in WriteOutcomes :
       last' = [Quiet EXCEPT !.op = "KeepAlive", !.layer = outgoing.tls,
                             !.frag = IF ok THEN <<" ">> ELSE <<>>, !.ok = ok,
                             !.err = IF ok THEN "nil" ELSE "write error"]
  /\ UNCHANGED <<connVars, chanVars, mapVars, mucVars>>


\* ------------------------------------------------------ reader operations
\* Decoder tokens are records [k, n]: k is "start" (n the local name),
\* "end", "text" (any other token) or "bad" (a syntax error, which the
\* decoder keeps returning).  Past the last token the decoder waits for the
\* peer while the socket is open and returns io.EOF once it is closed.

\* Faulty variant of NextFrom: no check of the element's local name.
RECURSIVE NextFrom_noNameCheck(_, _)
NextFrom_noNameCheck(s, i) ==
  IF i > Len(s) THEN [n |-> Len(s), val |-> "", err |-> "EOF"]
  ELSE IF s[i].k = "bad" THEN [n |-> i - 1, val |-> "", err |-> "syntax error"]
  ELSE IF s[i].k = "start" THEN [n |-> i, val |-> s[i].n, err |-> "nil"]
  ELSE NextFrom_noNameCheck(s, i + 1)

\* The loop of Next from token i on: how many tokens it consumes, the
\* element and the error it returns.
RECURSIVE NextFrom(_, _)
NextFrom(s, i) ==
  IF i > Len(s) THEN [n |-> Len(s), val |-> "", err |-> "EOF"]
  ELSE IF s[i].k = "bad" THEN [n |-> i - 1, val |-> "", err |-> "syntax error"]
  ELSE IF s[i].k = "start"
    THEN IF s[i].n = ""
           THEN [n |-> i, val |-> s[i].n, err |-> "invalid xml response"]
           ELSE [n |-> i, val |-> s[i].n, err |-> "nil"]
  ELSE NextFrom(s, i + 1)

\* xml.Decoder.DecodeElement(v, nil) once the start element is consumed:
\* read through the matching end element.
RECURSIVE ToEnd(_, _, _, _)
ToEnd(s, i, depth, at) ==
  IF i > Len(s) THEN [n |-> Len(s), err |-> "EOF", at |-> at]
  ELSE IF s[i].k = "bad" THEN [n |-> i - 1, err |-> "syntax error", at |-> at]
  ELSE IF s[i].k = "start" THEN ToEnd(s, i + 1, depth + 1, at)
  ELSE IF s[i].k = "end"
    THEN IF depth = 0 THEN [n |-> i, err |-> "nil", at |-> at]
                      ELSE ToEnd(s, i + 1, depth - 1, at)
  ELSE ToEnd(s, i + 1, depth, at)

\* xml.Decoder.DecodeElement(v, nil): skip to the next start element; a
\* struct with an XMLName field (want # "") accepts only that local name.
RECURSIVE DecodeElement(_, _, _)
DecodeElement(s, i, want) ==
  IF i > Len(s) THEN [n |-> Len(s), err |-> "EOF", at |-> 0]
  ELSE IF s[i].k = "bad" THEN [n |-> i - 1, err |-> "syntax error", at |-> 0]
  ELSE IF s[i].k = "start"
    THEN IF want # "" /\ s[i].n # want
           THEN [n |-> i, err |-> "unexpected element", at |-> i]
           ELSE ToEnd(s, i + 1, 0, i)
  ELSE DecodeElement(s, i + 1, want)

Rest(s, n) == SubSeq(s, n + 1, Len(s))
Blocks(r) == r.err = "EOF" /\ tcp = "open"

Next ==
  /\ Usable
  /\ Idle("R")
  /\ LET r == NextFrom(stream, 1)
     IN /\ ~Blocks(r)
        /\ stream' = Rest(stream, r.n)
        /\ last' = [Quiet EXCEPT !.op = "Next", !.layer = incoming.src.tls,
                                 !.ok = (r.err = "nil"), !.val = r.val,
                                 !.err = r.err]
  /\ UNCHANGED <<dialRet, tcp, incoming, outgoing, errchan, upgrades,
                 chanVars, mapVars, mucVars>>

\* What the decoded struct holds when DecodeElement returns d: nothing
\* ("zero"), only its XMLName ("named"), or fields filled from the element's
\* content ("content").  The innerxml of body is stored at the end element.
Decoded(d, want) ==
  IF want = ""
    THEN IF d.err = "nil" /\ d.n > d.at + 1 THEN "content" ELSE "zero"
  ELSE IF d.at = 0 \/ d.err = "unexpected element" THEN "zero"
  ELSE IF d.n > d.at + (IF d.err = "nil" THEN 1 ELSE 0) THEN "content"
  ELSE "named"

\* Faulty variant of Decode: the decode error is ignored.
Decode_dropsError(op, want) ==
  /\ Usable
  /\ Idle("R")
  /\ LET d == DecodeElement(stream, 1, want)
     IN /\ ~Blocks(d)
        /\ stream' = Rest(stream, d.n)
        /\ last' = [Quiet EXCEPT !.op = op, !.layer = incoming.src.tls,
                                 !.ok = (d.err = "nil"),
                                 !.val = Decoded(d, want)]
  /\ UNCHANGED <<dialRet, tcp, incoming, outgoing, errchan, upgrades,
                 chanVars, mapVars, mucVars>>

\* The body shared by Features, Body and Query:
\*   if err := c.incoming.DecodeElement(v, nil); err != nil { c.errchan <- err }
\*   return v
Decode(op, want) ==
  /\ Usable
  /\ Idle("R")
  /\ LET d == DecodeElement(stream, 1, want)
         r == [Quiet EXCEPT !.op = op, !.layer = incoming.src.tls,
                            !.ok = (d.err = "nil"),
                            !.val = Decoded(d, want)]
     IN /\ ~Blocks(d)
        /\ stream' = Rest(stream, d.n)
        /\ IF d.err = "nil" THEN last' = r /\ UNCHANGED chanVars
                            ELSE Send("R", r)
  /\ UNCHANGED <<dialRet, tcp, incoming, outgoing, errchan, upgrades,
                 mapVars, mucVars>>

Features == Decode("Features", "features")
Body == Decode("Body", "")
Query == Decode("Query", "query")

\* ------------------------------------------------------------ environment
Names == {"", "features", "query"}
Token ==
  [k : {"start"}, n : Names] \cup [k : {"end", "text", "bad"}, n : {""}]

PeerSend(tok) ==
  /\ Usable
  /\ tcp = "open"
  /\ Len(stream) < MaxStream
  /\ stream' = Append(stream, tok)
  /\ last' = Quiet
  /\ UNCHANGED <<dialRet, tcp, incoming, outgoing, errchan, upgrades,
                 chanVars, mapVars, mucVars>>

Disconnect ==
  /\ tcp = "open"
  /\ tcp' = "closed"
  /\ last' = Quiet
  /\ UNCHANGED <<dialRet, incoming, outgoing, errchan, upgrades, stream,
                 chanVars, mapVars, mucVars>>

\* ------------------------------------------------------- the specification
Bodies == {<<"a">>, <<"<">>}

InitPure ==
  /\ attr = <<>> /\ m = <<>> /\ mapped = FALSE
  /\ msgBody = <<>> /\ stanza = <<>> /\ readBack = <<>> /\ phase = "new"

InitConn ==
  /\ dialRet = [called |-> FALSE, conn |-> "nil", err |-> "nil"]
  /\ tcp = "none"
  /\ incoming = NilDecoder
  /\ outgoing = NilTransport
  /\ errchan = "nil"
  /\ upgrades = 0
  /\ stream = <<>>
  /\ chanBuf = <<>>
  /\ sendq = <<>>
  /\ nilq = {}
  /\ recvWaiting = FALSE
  /\ last = Quiet

Init ==
  /\ InitConn
  /\ chanCap \in 0..MaxCap
  /\ InitPure

Next_ ==
  \/ Dial
  \/ UseTLS
  \/ SetErrorChannel("ch")
  \/ Stream
  \/ StartTLS
  \/ Auth
  \/ Discover
  \/ Presence
  \/ MUCPart
  \/ MUCPresence
  \/ \E b \in Bodies : MUCSend(b)
  \/ Roster
  \/ KeepAlive
  \/ Features
  \/ Next
  \/ Body
  \/ Query
  \/ Receive
  \/ \E tok \in Token : PeerSend(tok)
  \/ Disconnect

Spec == Init /\ [][Next_]_vars

\* The writer task and the reader task on a connection whose transport is
\* not upgraded while they run, with a consumer that keeps receiving from
\* the error channel.
NextTasks ==
  \/ Dial
  \/ SetErrorChannel("ch")
  \/ Stream
  \/ StartTLS
  \/ Auth
  \/ Discover
  \/ Presence
  \/ MUCPart
  \/ MUCPresence
  \/ \E b \in Bodies : MUCSend(b)
  \/ Roster
  \/ KeepAlive
  \/ Features
  \/ Next
  \/ Body
  \/ Query
  \/ Receive
  \/ \E tok \in Token : PeerSend(tok)
  \/ Disconnect

FairSpec == Init /\ [][NextTasks]_vars /\ WF_vars(Receive)

\* ------------------------------------------------ encoding/xml on units
Entities == {"lt", "gt", "amp", "#39", "#34"}

\* The tag that starts at s[i] = "<".
TagAt(s, i) ==
  IF i + 2 <= Len(s) /\ IsName(s[i + 1]) /\ s[i + 2] = ">"
    THEN [k |-> "start", n |-> s[i + 1], lo |-> i, hi |-> i + 2]
  ELSE IF i + 3 <= Len(s) /\ s[i + 1] = "/" /\ IsName(s[i + 2]) /\ s[i + 3] = ">"
    THEN [k |-> "end", n |-> s[i + 2], lo |-> i, hi |-> i + 3]
  ELSE [k |-> "bad", n |-> "", lo |-> i, hi |-> Len(s)]

\* The character data that starts at s[lo], scanned up to s[i - 1].
RECURSIVE TextAt(_, _, _)
TextAt(s, i, lo) ==
  IF i > Len(s) \/ s[i] = "<"
    THEN [k |-> "text", n |-> "", lo |-> lo, hi |-> i - 1]
  ELSE IF s[i] = "&"
    THEN IF i + 2 <= Len(s) /\ s[i + 1] \in Entities /\ s[i + 2] = ";"
           THEN TextAt(s, i + 3, lo)
           ELSE [k |-> "bad", n |-> "", lo |-> lo, hi |-> Len(s)]
  ELSE TextAt(s, i + 1, lo)

\* xml.Decoder.Token over s from s[i] on; a syntax error ends the tokens.
RECURSIVE Tokens(_, _)
Tokens(s, i) ==
  IF i > Len(s) THEN <<>>
  ELSE LET t == IF s[i] = "<" THEN TagAt(s, i) ELSE TextAt(s, i, i)
       IN IF t.k = "bad" THEN <<t>> ELSE <<t>> \o Tokens(s, t.hi + 1)

\* What Body returns for a stanza whose start tag Next has consumed: the
\* `xml:",innerxml"` field, the raw units inside the next element.
InnerXML(s) ==
  LET toks == Tokens(s, 1)
      d == DecodeElement(toks, NextFrom(toks, 1).n + 1, "")
  IN IF d.err = "nil" THEN SubSeq(s, toks[d.at].hi + 1, toks[d.n].lo - 1)
                      ELSE <<>>

\* ------------------------------------------------------------------ ToMap
EmptyMap == [x \in {} |-> ""]
Put(mp, key, v) == [x \in DOMAIN mp \cup {key} |-> IF x = key THEN v ELSE mp[x]]

\* Faulty variant of Range: a local name already in the map keeps its value.
RECURSIVE Range_firstWins(_, _, _)
Range_firstWins(a, i, mp) ==
  IF i > Len(a) THEN mp
  ELSE Range_firstWins(a, i + 1,
         IF a[i].Local \in DOMAIN mp THEN mp ELSE Put(mp, a[i].Local, a[i].Value))

\* for _, a := range attr { m[a.Name.Local] = a.Value }, from attr[i] on.
RECURSIVE Range(_, _, _)
Range(a, i, mp) ==
  IF i > Len(a) THEN mp ELSE Range(a, i + 1, Put(mp, a[i].Local, a[i].Value))

ToMap(a) == Range(a, 1, EmptyMap)

\* ------------------------------------ the pure functions on bounded inputs
Attr == [Space : {"", "xml"}, Local : {"id", "lang"}, Value : {"1", "2"}]
BodyChars == {"a", "<", ">", "&", "\"", "'"}
SeqsUpTo(S, n) == UNION {[1..k -> S] : k \in 0..n}

CallToMap ==
  /\ ~mapped
  /\ m' = ToMap(attr)
  /\ mapped' = TRUE
  /\ UNCHANGED <<attr, connVars, chanVars, last, mucVars>>

InitToMap ==
  /\ InitConn
  /\ chanCap = 0
  /\ attr \in SeqsUpTo(Attr, MaxAttrs)
  /\ m = EmptyMap
  /\ mapped = FALSE
  /\ msgBody = <<>> /\ stanza = <<>> /\ readBack = <<>> /\ phase = "new"

SpecToMap == InitToMap /\ [][CallToMap]_vars

\* MUCSend formats the stanza; the peer echoes it; Next and Body read it.
FormatMUCSend ==
  /\ phase = "new"
  /\ stanza' = xmlMUCMessage(EscapeString(msgBody))
  /\ phase' = "sent"
  /\ UNCHANGED <<msgBody, readBack, connVars, chanVars, last, mapVars>>

ReadBody ==
  /\ phase = "sent"
  /\ readBack' = InnerXML(stanza)
  /\ phase' = "read"
  /\ UNCHANGED <<msgBody, stanza, connVars, chanVars, last, mapVars>>

InitMUC ==
  /\ InitConn
  /\ chanCap = 0
  /\ attr = <<>> /\ m = EmptyMap /\ mapped = FALSE
  /\ msgBody \in SeqsUpTo(BodyChars, MaxBody)
  /\ stanza = <<>> /\ readBack = <<>> /\ phase = "new"

SpecMUC == InitMUC /\ [][FormatMUCSend \/ ReadBody]_vars

\* ================================================================ claims
EmitOps ==
  {"Stream", "StartTLS", "Auth", "Discover", "Presence", "MUCPart",
   "MUCPresence", "MUCSend", "Roster"}
DecodeOps == {"Features", "Body", "Query"}
WriterOps == EmitOps \cup {"KeepAlive"}
ReaderOps == DecodeOps \cup {"Next"}
OpsOf(t) == IF t = "W" THEN WriterOps ELSE ReaderOps
\* The operations of task t that hand their error to c.errchan.
ChannelOpsOf(t) == IF t = "W" THEN EmitOps ELSE DecodeOps

Count(q, t) == Cardinality({i \in 1..Len(q) : q[i] = t})
\* Errors of task t that were sent and not yet received.
InFlight(t) ==
  Count(chanBuf, t) + Count(sendq, t) + (IF t \in nilq THEN 1 ELSE 0)

\* ---- C1
\* C1: on the connection of a successful Dial, after any number of UseTLS
\* calls, the decoder reads from the very transport the writers write to, and
\* that transport is the socket wrapped once per UseTLS call; every write and
\* every read uses the transport of the upgrades made before it.
C1_DecoderOnWriterTransport ==
  Usable =>
    /\ incoming.bound
    /\ incoming.src = outgoing
    /\ outgoing = [base |-> "sock", tls |-> upgrades]
    /\ (last.op \in WriterOps \cup ReaderOps => last.layer = upgrades)

C1_Witness ==
  /\ Usable
  /\ upgrades = 1
  /\ last.op = "Presence"
  /\ last.ok
  /\ last.layer = 1

\* ---- C2
\* C2: a fire-and-forget writer whose write fails while no error channel is
\* installed drops the error and returns: its task is not left blocked.
C2_NilChannelDropsError ==
  (last.op \in EmitOps /\ ~last.ok /\ errchan = "nil") => Idle("W")

\* ---- C3
\* C3 as stated: Features, Body and Query report a failed decode as their own
\* error result, and need no channel for it.
C3_DecodeErrorReturned ==
  (last.op \in DecodeOps /\ ~last.ok) =>
    /\ last.err \notin {"void", "nil"}
    /\ Idle("R")

\* C3 as amended: Features, Body and Query have no error result; a failed
\* decode is sent on c.errchan (taken by a waiting receiver, or buffered, or
\* the reader blocks in the send, for good on the nil channel), and what they
\* return is the struct as far as it was filled.  Next alone returns its
\* error, and sends nothing.
C3_DecodeErrorSentOnChannel ==
  /\ (last.op \in DecodeOps /\ ~last.ok) =>
       /\ last.err = "void"
       /\ last.val \in {"zero", "named", "content"}
       /\ IF errchan = "nil" THEN "R" \in nilq
          ELSE \/ last.recv = "R"
               \/ (chanBuf # <<>> /\ chanBuf[Len(chanBuf)] = "R")
               \/ (sendq # <<>> /\ sendq[Len(sendq)] = "R")
  /\ (last.op \in DecodeOps /\ last.ok) => (last.err = "void" /\ last.recv = "")
  /\ (last.op = "Next" /\ ~last.ok) =>
       (last.err \notin {"void", "nil"} /\ last.recv = "" /\ Idle("R"))

C3_Witness ==
  /\ last.op = "Features"
  /\ ~last.ok
  /\ last.val = "named"
  /\ errchan = "ch"
  /\ chanBuf = <<"R">>

\* ---- C4
\* C4: KeepAlive writes the single space to the current transport; it
\* returns nil when the write succeeds and the write's error when it fails;
\* it sends nothing on the error channel and changes no field of the
\* connection.
C4_KeepAliveReturnsItsError ==
  [][last'.op = "KeepAlive" =>
       /\ UNCHANGED <<incoming, outgoing, errchan, chanCap, chanBuf, sendq,
                      nilq, recvWaiting>>
       /\ last'.recv = ""
       /\ last'.layer = outgoing.tls
       /\ last'.ok = (tcp = "open")
       /\ IF tcp = "open"
            THEN last'.frag = <<" ">> /\ Len(last'.frag) = 1 /\ last'.err = "nil"
            ELSE last'.frag = <<>> /\ last'.err \notin {"nil", "void"}]_vars

C4_Witness ==
  /\ last.op = "KeepAlive"
  /\ ~last.ok
  /\ last.err = "write error"
  /\ errchan = "ch"
  /\ tcp = "closed"

\* ---- C5
\* C5 as stated: a fire-and-forget writer whose write fails while the
\* installed channel is full and nobody is receiving still returns.
C5_FullChannelWriterReturns ==
  (/\ last.op \in EmitOps
   /\ ~last.ok
   /\ errchan = "ch"
   /\ Len(chanBuf) = chanCap
   /\ ~recvWaiting) => Idle("W")

\* C5 as amended: such a writer blocks in the send, behind the senders
\* already waiting, and the buffer is left as it was; it returns only when a
\* receive takes its error, which then is received or buffered once, neither
\* lost nor duplicated.
C5_FullChannelWriterBlocks ==
  [][/\ (/\ last'.op \in EmitOps
         /\ ~last'.ok
         /\ errchan = "ch"
         /\ Len(chanBuf) = chanCap
         /\ ~recvWaiting) =>
          /\ sendq' = Append(sendq, "W")
          /\ chanBuf' = chanBuf
          /\ last'.recv = ""
     /\ (Count(sendq, "W") = 1 /\ Count(sendq', "W") = 0) =>
          /\ last'.op = "receive"
          /\ InFlight("W")' + (IF last'.recv = "W" THEN 1 ELSE 0)
               = InFlight("W")]_vars

C5_Witness ==
  /\ last.op = "MUCSend"
  /\ ~last.ok
  /\ chanCap = 1
  /\ chanBuf = <<"R">>
  /\ sendq = <<"W">>
  /\ ~recvWaiting

\* ---- C6
\* The first start element or syntax error of token sequence s (0: none).
FirstStop(s) ==
  IF \E i \in 1..Len(s) : s[i].k \in {"start", "bad"}
    THEN CHOOSE i \in 1..Len(s) :
           /\ s[i].k \in {"start", "bad"}
           /\ \A j \in 1..(i - 1) : s[j].k \notin {"start", "bad"}
    ELSE 0

\* C6: Next consumes the tokens up to and including the first start element
\* and none after it; it returns that element with no error exactly when its
\* local name is not empty, "invalid xml response" when it is empty, and the
\* decoder's error when the stream fails or ends before a start element.  It
\* never returns an element with an empty name and no error.
C6_NextStopsAtFirstStart ==
  [][last'.op = "Next" =>
       LET i == FirstStop(stream)
       IN /\ UNCHANGED <<chanBuf, sendq, nilq, recvWaiting>>
          /\ last'.recv = ""
          /\ ~(last'.err = "nil" /\ last'.val = "")
          /\ last'.ok = (last'.err = "nil")
          /\ IF i = 0
               THEN /\ tcp = "closed"
                    /\ stream' = <<>>
                    /\ last'.err = "EOF"
             ELSE IF stream[i].k = "bad"
               THEN /\ stream' = SubSeq(stream, i, Len(stream))
                    /\ last'.err = "syntax error"
             ELSE /\ stream' = SubSeq(stream, i + 1, Len(stream))
                  /\ last'.val = stream[i].n
                  /\ last'.err =
                       IF stream[i].n = "" THEN "invalid xml response" ELSE "nil"]_vars

C6_Witness ==
  /\ last.op = "Next"
  /\ last.err = "invalid xml response"
  /\ last.val = ""
  /\ Len(stream) = 1

\* ---- C7
\* C7 as stated: with the channel installed, every failure of an operation
\* of either task reaches the channel once.
C7_EveryFailureOnChannel ==
  [][\A t \in Tasks :
       (errchan = "ch" /\ last'.op \in OpsOf(t) /\ ~last'.ok) =>
         InFlight(t)' + (IF last'.recv = t THEN 1 ELSE 0) = InFlight(t) + 1]_vars

\* In one step: what task t sends and what the consumer receives of t
\* accounts for the change of what is in flight.
Accounted(t) ==
  InFlight(t)' + (IF last'.recv = t THEN 1 ELSE 0)
    = InFlight(t)
      + (IF last'.op \in ChannelOpsOf(t) /\ ~last'.ok THEN 1 ELSE 0)

\* C7 as amended: with the writer task and the reader task sharing the
\* channel, each failure of a fire-and-forget writer and of Features, Body
\* and Query is sent once and received at most once, none is lost or
\* duplicated; failures of KeepAlive and Next are returned and never sent;
\* and while the consumer keeps receiving, a task blocked in a send on the
\* installed channel returns.
C7_FailuresAccountedTasksReturn ==
  /\ [][\A t \in Tasks : Accounted(t)]_vars
  /\ \A t \in Tasks : (Count(sendq, t) = 1) ~> (Count(sendq, t) = 0)

C7_Witness ==
  /\ sendq = <<"W", "R">>
  /\ chanCap = 0
  /\ errchan = "ch"

\* ---- C8
SpecialChars == {"<", ">", "&", "\"", "'"}
Plain(b) == \A i \in 1..Len(b) : b[i] \notin SpecialChars
StartNames(toks) ==
  [i \in 1..Cardinality({j \in 1..Len(toks) : toks[j].k = "start"}) |->
     toks[CHOOSE j \in 1..Len(toks) :
            /\ toks[j].k = "start"
            /\ Cardinality({h \in 1..j : toks[h].k = "start"}) = i].n]

\* Every end tag closes the element opened last, and none stays open.
RECURSIVE Balanced(_, _, _)
Balanced(toks, i, open) ==
  IF i > Len(toks) THEN open = <<>>
  ELSE IF toks[i].k = "bad" THEN FALSE
  ELSE IF toks[i].k = "start" THEN Balanced(toks, i + 1, <<toks[i].n>> \o open)
  ELSE IF toks[i].k = "end"
    THEN open # <<>> /\ Head(open) = toks[i].n /\ Balanced(toks, i + 1, Tail(open))
  ELSE open # <<>> /\ Balanced(toks, i + 1, open)

WellFormed(s) == Balanced(Tokens(s, 1), 1, <<>>)

\* The character an entity reference stands for.
EntityChar(e) ==
  CASE e = "lt" -> "<" [] e = "gt" -> ">" [] e = "amp" -> "&"
    [] e = "#39" -> "'" [] e = "#34" -> "\""

\* The character data of raw text: entity references resolved.
RECURSIVE CharData(_)
CharData(raw) ==
  IF raw = <<>> THEN <<>>
  ELSE IF raw[1] = "&" /\ Len(raw) >= 3
    THEN <<EntityChar(raw[2])>> \o CharData(SubSeq(raw, 4, Len(raw)))
  ELSE <<raw[1]>> \o CharData(Tail(raw))

\* C8 as stated: the stanza is well formed, holds the message and one body
\* element and nothing else, and Body returns the body text MUCSend was
\* given.
C8_BodyRoundTrips ==
  phase = "read" =>
    /\ WellFormed(stanza)
    /\ StartNames(Tokens(stanza, 1)) = <<"message", "body">>
    /\ readBack = msgBody

\* C8 as amended: the stanza is well formed, holds the message and one body
\* element and nothing else, and the body element's character data is the
\* body text MUCSend was given; Body returns the element's inner XML as
\* written, entity references unresolved, which is the body text exactly
\* when that text has none of < > & " '.
C8_BodyReadsEscapedText ==
  phase = "read" =>
    /\ WellFormed(stanza)
    /\ StartNames(Tokens(stanza, 1)) = <<"message", "body">>
    /\ CharData(readBack) = msgBody
    /\ \A i \in 1..Len(readBack) : readBack[i] \notin {"<", ">", "\"", "'"}
    /\ (readBack = msgBody) <=> Plain(msgBody)

C8_Witness ==
  /\ phase = "read"
  /\ msgBody = <<"<", "&", "\"">>
  /\ readBack = <<"&", "lt", ";", "&", "amp", ";", "&", "#34", ";">>

\* ---- C9
Locals(a) == {a[i].Local : i \in 1..Len(a)}
LastWith(a, key) ==
  CHOOSE i \in 1..Len(a) :
    a[i].Local = key /\ \A j \in (i + 1)..Len(a) : a[j].Local # key
Orderings(n) == {p \in [1..n -> 1..n] : \A i, j \in 1..n : p[i] = p[j] => i = j}

\* C9: the keys of ToMap's result are the local names of the attributes,
\* each key maps to the value of the last attribute with that local name
\* whatever the namespaces, attributes without a repeated local name give
\* the same map in any order, and the attribute sequence is left as it was.
C9_ToMapLastWins ==
  mapped =>
    /\ DOMAIN m = Locals(attr)
    /\ \A key \in Locals(attr) : m[key] = attr[LastWith(attr, key)].Value
    /\ (Cardinality(Locals(attr)) = Len(attr)) =>
         \A p \in Orderings(Len(attr)) :
           ToMap([i \in 1..Len(attr) |-> attr[p[i]]]) = m
    /\ ToMap(attr) = m

C9_Witness ==
  /\ mapped
  /\ Len(attr) = 3
  /\ attr[1].Local = "id" /\ attr[1].Space = "" /\ attr[1].Value = "1"
  /\ attr[2].Local = "lang"
  /\ attr[3].Local = "id" /\ attr[3].Space = "xml" /\ attr[3].Value = "2"
  /\ m["id"] = "2"

\* ---- C10
\* C10: Dial returns a connection object in every case; it returns an error
\* exactly when the TCP connection failed, then with every field of the
\* connection zero; when it succeeds the transport is the new socket and the
\* decoder is bound to it.
C10_DialReturnsConn ==
  last.op = "Dial" =>
    /\ dialRet.called
    /\ dialRet.conn # "nil"
    /\ (dialRet.err # "nil") <=> (tcp = "failed")
    /\ IF tcp = "failed"
         THEN /\ incoming = NilDecoder
              /\ outgoing = NilTransport
              /\ errchan = "nil"
         ELSE /\ tcp = "open"
              /\ outgoing = Socket
              /\ incoming = NewDecoder(Socket)
              /\ errchan = "nil"

C10_Witness ==
  /\ last.op = "Dial"
  /\ dialRet.err = "dial error"
  /\ dialRet.conn = "c"
  /\ outgoing = NilTransport

====
